---- MODULE Spec2Model ----
(***************************************************************************)
(* Task lifecycle of the Employee Management System backend                *)
(* (backend/routes/employees.js, backend/routes/admin.js, models/Admin.js) *)
(* and of the client-side status helpers (services/taskWorkflow.js,        *)
(* utils/taskUtils.js).                                                    *)
(*                                                                         *)
(* Time is counted in milliseconds; every instant of the model is a        *)
(* multiple of GRACE_MS.  A task id is the task's position in the          *)
(* employee's embedded tasks array (tasks are never removed by the         *)
(* modelled routes); requests address an employee and a task that exist.   *)
(* A submitted document is identified by its ordinal among the uploads of  *)
(* its task.                                                               *)
(***************************************************************************)
EXTENDS Integers, Sequences, FiniteSets, Bags, TLC

\* ------------------------------------------------------------------ bounds
MaxTime == 3
MaxTasks == 1
MaxUploads == 2
MaxInflight == 2

\* --------------------------------------------------------------- constants
GRACE_MS == 30 * 1000

Admins == {"a1", "a2"}
Emps == {"e1"}
\* the admin document an employee is embedded in; admin a2 has no employees
adminOf == [e \in Emps |-> "a1"]

\* the endDate values a create request carries at a given time: one the
\* validation rejects (exactly the grace) and one it accepts
Deadlines(currentTime) == {currentTime + GRACE_MS, currentTime + 2 * GRACE_MS}
TaskIds == 1..MaxTasks

\* enum of taskSchema.status
StatusEnum == {"new", "active", "completed", "failed", "pendingVerification", "expired"}
\* enum of taskSchema.verificationStatus
VerificationEnum == {"pending", "verified", "approved", "rejected", "expired", "none", ""}

\* the value of req.body.status when the field is absent
NoStatus == "<absent>"
\* values of req.body.status the PUT route is driven with
PutStatuses == {"active", "completed", "failed", "pendingVerification", NoStatus}
\* PUT bodies that name one of the statuses the switch accepts
ListedPutStatuses == {"active", "completed", "failed"}
\* values of req.body.status the verify route accepts
VerifyStatuses == {"completed", "rejected"}

Flags == {"newTask", "active", "completed", "failed"}
\* fields of a PUT body other than status (the rest object updateData)
BodyFields == Flags \cup {"verificationStatus"}
NoFields == <<>>

VARIABLES
  tasks,        \* tasks[e]: the employee's embedded tasks array
  taskCounts,   \* taskCounts[e]: the employee's stored taskCounts
  now,          \* the server clock (new Date())
  last,         \* the last event: a request and its response, or a clock tick
  inflight      \* the requests that have read the database and not yet written

vars == <<tasks, taskCounts, now, last, inflight>>

\* ------------------------------------------------------------ Admin model
ZeroCounts == [newTask |-> 0, active |-> 0, completed |-> 0, failed |-> 0]

\* employeeSchema.methods.updateTaskCounts, and the identical inline
\* recomputation of the create-task route and of the PUT fallback
UpdateTaskCounts(ts) ==
  [completed |-> Cardinality({i \in DOMAIN ts : ts[i].completed}),
   failed    |-> Cardinality({i \in DOMAIN ts : ts[i].failed /\ ~ts[i].completed}),
   active    |-> Cardinality({i \in DOMAIN ts :
                                ts[i].active /\ ~ts[i].completed /\ ~ts[i].failed}),
   newTask   |-> Cardinality({i \in DOMAIN ts :
                                /\ ts[i].newTask /\ ~ts[i].active
                                /\ ~ts[i].completed /\ ~ts[i].failed})]

\* schema validation run by admin.save(): the enum fields of a task
ValidTask(t) ==
  /\ t.status \in StatusEnum
  /\ t.verificationStatus \in VerificationEnum

\* `(x || d) - 1` clamped at 0, as in Math.max(0, (counts.active || 1) - 1)
DecOr(x, d) == LET y == (IF x = 0 THEN d ELSE x) - 1 IN IF y < 0 THEN 0 ELSE y

Exists(e, i) == i \in 1..Len(tasks[e])

\* op/arg: the request; code: the HTTP status of the response; updatedCount:
\* the sweep's result; prevUpdated: the result of the sweep that immediately
\* preceded this sweep with nothing in between, -1 when there is none
Resp(op, arg, code, n, prev) ==
  [op |-> op, arg |-> arg, code |-> code, updatedCount |-> n, prevUpdated |-> prev]

\* ------------------------------------------------------- updateTaskState
StatusLabel(t) ==
  IF t.failed THEN "expired"
  ELSE IF t.completed THEN "completed"
  ELSE IF t.verificationStatus = "pending" THEN "pendingVerification"
  ELSE IF t.active THEN "active"
  ELSE "new"

\* mutant of updateTaskState: a completed task is not returned early
updateTaskState_ExpiresCompleted(task, currentTime) ==
  IF task.endDate < currentTime /\ ~task.failed
    THEN [task EXCEPT !.active = FALSE, !.newTask = FALSE, !.completed = FALSE,
                      !.failed = TRUE, !.verificationStatus = "expired"]
  ELSE LET t1 == IF task.verificationStatus = "pending"
                   THEN [task EXCEPT !.active = FALSE, !.newTask = FALSE,
                                     !.completed = FALSE, !.failed = FALSE]
                   ELSE task
       IN [t1 EXCEPT !.status = StatusLabel(t1)]

updateTaskState(task, currentTime) ==
  IF task.completed THEN task
  ELSE IF task.endDate < currentTime /\ ~task.failed
    THEN [task EXCEPT !.active = FALSE, !.newTask = FALSE, !.completed = FALSE,
                      !.failed = TRUE, !.verificationStatus = "expired"]
  ELSE LET t1 == IF task.verificationStatus = "pending"
                   THEN [task EXCEPT !.active = FALSE, !.newTask = FALSE,
                                     !.completed = FALSE, !.failed = FALSE]
                   ELSE task
       IN [t1 EXCEPT !.status = StatusLabel(t1)]

\* ------------------------------------------------------------------- Init
Init ==
  /\ tasks = [e \in Emps |-> <<>>]
  /\ taskCounts = [e \in Emps |-> ZeroCounts]
  /\ now = 0
  /\ last = Resp("none", "", 0, 0, -1)
  /\ inflight = EmptyBag

\* the clock advances
Tick ==
  /\ now < MaxTime * GRACE_MS
  /\ now' = now + GRACE_MS
  /\ last' = Resp("tick", "", 0, 0, -1)
  /\ UNCHANGED <<tasks, taskCounts, inflight>>

\* -------------------------------------------- POST /:adminId/employees/:employeeId/tasks
RECURSIVE SumOver(_, _)
SumOver(f, S) ==
  IF S = {} THEN 0
  ELSE LET x == CHOOSE y \in S : TRUE IN f[x] + SumOver(f, S \ {x})

TotalTasks == SumOver([e \in Emps |-> Len(tasks[e])], Emps)

\* the task object the create route pushes; status takes the schema default
NewTaskObject(endDate) ==
  [newTask |-> TRUE, active |-> FALSE, completed |-> FALSE, failed |-> FALSE,
   verificationStatus |-> "", status |-> "new", endDate |-> endDate,
   submittedDocuments |-> <<>>]

\* mutant of CreateAccepts: an endDate exactly at the grace is accepted
CreateAccepts_AtGrace(endDate, currentTime) == ~(endDate < currentTime + GRACE_MS)

CreateAccepts(endDate, currentTime) == ~(endDate <= currentTime + GRACE_MS)

\* The request names the employee's own admin and carries every required
\* field and a parsable endDate.
CreateTask(e, endDate) ==
  /\ TotalTasks < MaxTasks
  /\ IF ~CreateAccepts(endDate, now)
       THEN /\ last' = Resp("create", "", 400, 0, -1)
            /\ UNCHANGED <<tasks, taskCounts>>
     ELSE LET ts == Append(tasks[e], NewTaskObject(endDate)) IN
            /\ tasks' = [tasks EXCEPT ![e] = ts]
            /\ taskCounts' = [taskCounts EXCEPT ![e] = UpdateTaskCounts(ts)]
            /\ last' = Resp("create", "", 201, 0, -1)
  /\ UNCHANGED <<now, inflight>>

\* -------------------------------------------- PUT /:id/tasks/:taskId
\* mutant of PutRejected: 'completed' is accepted without a pending review
PutRejected_CompletesUnreviewed(task, status) ==
  \/ status = "failed" /\ task.completed
  \/ status \notin {"active", "completed", "failed", NoStatus}

\* the switch on req.body.status answers 400 and aborts the transaction
PutRejected(task, status) ==
  \/ status = "completed" /\ task.verificationStatus # "pending"
  \/ status = "failed" /\ task.completed
  \/ status \notin {"active", "completed", "failed", NoStatus}

\* the label assigned after the switch ("Update the task status based on the new state")
PutLabel(t) ==
  IF t.completed THEN "completed"
  ELSE IF t.failed THEN "failed"
  ELSE IF t.verificationStatus = "pending" THEN "pendingVerification"
  ELSE IF t.active THEN "active"
  ELSE "new"

\* the flag assignments of the accepted cases of the switch
PutCase(task, status) ==
  LET t1 == IF status = "active"
              THEN [task EXCEPT !.active = TRUE, !.completed = FALSE, !.failed = FALSE,
                                !.newTask = FALSE, !.verificationStatus = ""]
            ELSE IF status = "completed"
              THEN [task EXCEPT !.completed = TRUE, !.active = FALSE, !.failed = FALSE,
                                !.newTask = FALSE, !.verificationStatus = "approved"]
            ELSE IF status = "failed"
              THEN [task EXCEPT !.failed = TRUE, !.active = FALSE, !.completed = FALSE,
                                !.newTask = FALSE, !.verificationStatus = "expired"]
            ELSE task
  IN IF status = NoStatus THEN task ELSE [t1 EXCEPT !.status = PutLabel(t1)]

\* Object.entries(updateData).forEach(([key, value]) => task[key] = value)
ApplyFields(t, fields) ==
  [k \in DOMAIN t |-> IF k \in DOMAIN fields THEN fields[k] ELSE t[k]]

\* The req.files branch is not modelled: the route has no upload middleware,
\* so req.files is undefined.  The taskCounts edits of the cases 'completed'
\* and 'failed' are overwritten by employee.updateTaskCounts() before the save.
\* the HTTP status of the response and the employee's tasks and taskCounts
\* as stored when the request has finished
PutResult(e, i, status, fields) ==
  IF PutRejected(tasks[e][i], status)
    THEN [code |-> 400, tasks |-> tasks, taskCounts |-> taskCounts]
  ELSE LET t1 == PutCase(tasks[e][i], status)
           t2 == ApplyFields(t1, fields)
           t3 == updateTaskState(t2, now)
           ts == [tasks[e] EXCEPT ![i] = t3]
       IN IF ValidTask(t3)
            THEN [code |-> 200, tasks |-> [tasks EXCEPT ![e] = ts],
                  taskCounts |-> [taskCounts EXCEPT ![e] = UpdateTaskCounts(ts)]]
            ELSE [code |-> 500, tasks |-> tasks, taskCounts |-> taskCounts]

PutTask(e, i, status, fields) ==
  /\ Exists(e, i)
  /\ \E r \in {PutResult(e, i, status, fields)} :
       /\ tasks' = r.tasks
       /\ taskCounts' = r.taskCounts
       /\ last' = Resp("put", status, r.code, 0, -1)
  /\ UNCHANGED <<now, inflight>>

\* -------------------------------------------- POST /:employeeId/tasks/:taskId/documents
\* the document object of an upload, identified by its ordinal among the
\* task's uploads
NewDocument(task) == Len(task.submittedDocuments) + 1

RECURSIVE SumDocs(_)
SumDocs(ts) == IF ts = <<>> THEN 0 ELSE Len(Head(ts).submittedDocuments) + SumDocs(Tail(ts))

TotalDocs == SumOver([e \in Emps |-> SumDocs(tasks[e])], Emps)

UploadTask(task, doc) ==
  LET t1 == [task EXCEPT !.submittedDocuments = Append(@, doc)]
  IN IF t1.status = "new" \/ t1.status = "active"
       THEN [t1 EXCEPT !.status = "pendingVerification", !.verificationStatus = "pending"]
       ELSE t1

\* mutant of UploadResult: the request is processed although it carries no file
UploadResult_WithoutFileCheck(e, i, hasFile) ==
  [code |-> 201,
   tasks |-> [tasks EXCEPT ![e][i] = UploadTask(@, NewDocument(@))],
   taskCounts |-> taskCounts]

\* the HTTP status of the response and the tasks and taskCounts as stored
\* when the request has finished
UploadResult(e, i, hasFile) ==
  IF ~hasFile
    THEN [code |-> 400, tasks |-> tasks, taskCounts |-> taskCounts]
    ELSE [code |-> 201,
          tasks |-> [tasks EXCEPT ![e][i] = UploadTask(@, NewDocument(@))],
          taskCounts |-> taskCounts]

Upload(e, i, hasFile) ==
  /\ Exists(e, i)
  /\ hasFile => TotalDocs < MaxUploads
  /\ \E r \in {UploadResult(e, i, hasFile)} :
       /\ tasks' = r.tasks
       /\ taskCounts' = r.taskCounts
       /\ last' = Resp("upload", "", r.code, 0, -1)
  /\ UNCHANGED <<now, inflight>>

\* -------------------------------------------- POST /:employeeId/tasks/:taskId/verify
VerifyTask(task, status) ==
  IF status = "completed"
    THEN [task EXCEPT !.completed = TRUE, !.active = FALSE, !.newTask = FALSE,
                      !.failed = FALSE, !.verificationStatus = "approved"]
    ELSE [task EXCEPT !.completed = FALSE, !.active = TRUE, !.newTask = FALSE,
                      !.failed = FALSE, !.verificationStatus = "rejected"]

VerifyCounts(c, status) ==
  IF status = "completed"
    THEN [c EXCEPT !.completed = c.completed + 1, !.active = DecOr(c.active, 1)]
    ELSE [c EXCEPT !.active = c.active + 1]

\* mutant of VerifyResult: the review is applied whatever the verificationStatus
VerifyResult_WithoutPendingGuard(e, i, status) ==
  [code |-> 200,
   tasks |-> [tasks EXCEPT ![e][i] = VerifyTask(@, status)],
   taskCounts |-> [taskCounts EXCEPT ![e] = VerifyCounts(@, status)]]

VerifyResult(e, i, status) ==
  IF tasks[e][i].verificationStatus # "pending"
    THEN [code |-> 400, tasks |-> tasks, taskCounts |-> taskCounts]
    ELSE [code |-> 200,
          tasks |-> [tasks EXCEPT ![e][i] = VerifyTask(@, status)],
          taskCounts |-> [taskCounts EXCEPT ![e] = VerifyCounts(@, status)]]

Verify(e, i, status) ==
  /\ Exists(e, i)
  /\ \E r \in {VerifyResult(e, i, status)} :
       /\ tasks' = r.tasks
       /\ taskCounts' = r.taskCounts
       /\ last' = Resp("verify", status, r.code, 0, -1)
  /\ UNCHANGED <<now, inflight>>

\* -------------------------------------------- POST /tasks/check-expired
\* the $elemMatch of the Admin.find query
QueryMatch(t, currentTime) ==
  /\ \/ t.active /\ t.endDate < currentTime
     \/ t.verificationStatus = "pending" /\ t.endDate < currentTime
  /\ ~t.completed
  /\ ~t.failed

AdminMatched(a, currentTime) ==
  \E e \in Emps : /\ adminOf[e] = a
                  /\ \E i \in 1..Len(tasks[e]) : QueryMatch(tasks[e][i], currentTime)

\* the loop body's test: the task is changed by the sweep
SweepHits(t, currentTime) ==
  ~(t.completed \/ t.failed) /\ t.endDate < currentTime

\* mutant of SweepTask: marks the task expired but leaves its flags as they were
SweepTask_KeepsFlags(t, currentTime) ==
  IF SweepHits(t, currentTime)
    THEN [t EXCEPT !.verificationStatus = "expired"]
    ELSE t

SweepTask(t, currentTime) ==
  IF SweepHits(t, currentTime)
    THEN [t EXCEPT !.active = FALSE, !.completed = FALSE, !.failed = TRUE,
                   !.verificationStatus = "expired"]
    ELSE t

RECURSIVE DecTimes(_, _)
DecTimes(x, k) == IF k = 0 THEN x ELSE DecTimes(DecOr(x, 1), k - 1)

\* the in-place edits of employee.taskCounts, one per task the loop changes
SweepCounts(c, ts, currentTime) ==
  [c EXCEPT
     !.active = DecTimes(@, Cardinality({i \in DOMAIN ts :
                                           /\ SweepHits(ts[i], currentTime)
                                           /\ ts[i].status = "active"})),
     !.failed = @ + Cardinality({i \in DOMAIN ts : SweepHits(ts[i], currentTime)})]

SweepUpdated(e, currentTime) ==
  IF AdminMatched(adminOf[e], currentTime)
    THEN Cardinality({i \in DOMAIN tasks[e] : SweepHits(tasks[e][i], currentTime)})
    ELSE 0

SweepResult ==
  [code |-> 200,
   tasks |-> [e \in Emps |->
                IF AdminMatched(adminOf[e], now)
                  THEN [i \in 1..Len(tasks[e]) |-> SweepTask(tasks[e][i], now)]
                  ELSE tasks[e]],
   taskCounts |-> [e \in Emps |->
                     IF AdminMatched(adminOf[e], now)
                       THEN SweepCounts(taskCounts[e], tasks[e], now)
                       ELSE taskCounts[e]],
   updatedCount |-> SumOver([e \in Emps |-> SweepUpdated(e, now)], Emps)]

CheckExpired ==
  /\ \E r \in {SweepResult} :
       /\ tasks' = r.tasks
       /\ taskCounts' = r.taskCounts
       /\ last' = Resp("sweep", "", r.code, r.updatedCount,
                       IF last.op = "sweep" THEN last.updatedCount ELSE -1)
  /\ UNCHANGED <<now, inflight>>

\* ------------------------------------------------------------------- Next
Next ==
  \/ Tick
  \/ \E e \in Emps, d \in Deadlines(now) : CreateTask(e, d)
  \/ \E e \in Emps, i \in TaskIds, s \in PutStatuses : PutTask(e, i, s, NoFields)
  \/ \E e \in Emps, i \in TaskIds, f \in BOOLEAN : Upload(e, i, f)
  \/ \E e \in Emps, i \in TaskIds, s \in VerifyStatuses : Verify(e, i, s)
  \/ CheckExpired

Spec == Init /\ [][Next]_vars

\* The server driven only with PUT bodies whose status is active, completed
\* or failed.
NextListed ==
  \/ Tick
  \/ \E e \in Emps, d \in Deadlines(now) : CreateTask(e, d)
  \/ \E e \in Emps, i \in TaskIds, s \in ListedPutStatuses : PutTask(e, i, s, NoFields)
  \/ \E e \in Emps, i \in TaskIds, f \in BOOLEAN : Upload(e, i, f)
  \/ \E e \in Emps, i \in TaskIds, s \in VerifyStatuses : Verify(e, i, s)
  \/ CheckExpired

SpecListed == Init /\ [][NextListed]_vars

\* the rest object updateData of the PUT bodies the route is driven with
\* when a body carries fields besides status
Bodies ==
  {[completed |-> TRUE], [failed |-> TRUE], [active |-> TRUE],
   [verificationStatus |-> "approved"], [submittedDocuments |-> <<>>]}

\* The server driven with PUT bodies that carry a task field besides, or
\* instead of, status.
NextBody ==
  \/ Tick
  \/ \E e \in Emps, d \in Deadlines(now) : CreateTask(e, d)
  \/ \E e \in Emps, i \in TaskIds, s \in PutStatuses, b \in Bodies : PutTask(e, i, s, b)
  \/ \E e \in Emps, i \in TaskIds, f \in BOOLEAN : Upload(e, i, f)
  \/ \E e \in Emps, i \in TaskIds, s \in VerifyStatuses : Verify(e, i, s)
  \/ CheckExpired

SpecBody == Init /\ [][NextBody]_vars

\* ------------------------------------------------ requests that overlap
\* A handler reads the admin document (findOne / find), changes the copy it
\* holds and writes the employees array back with admin.save().  A request is
\* in flight between its read and its save.  The verify, PUT and
\* check-expired routes read inside their transaction (.session(session)), so
\* their save fails with a write conflict, caught and answered 500, when the
\* document was written after their read.  The upload route reads outside its
\* transaction and its save overwrites whatever was written since.  The
\* create route uses no transaction: an atomic $push of the task, a read of
\* the document, and a $set of the counts computed from that read.
NoResult == [code |-> 0, tasks |-> << >>, taskCounts |-> << >>]

InFlight == BagToSet(inflight)

\* the requests in flight other than r, the copy each holds now being older
\* than the document
Outdated(B) ==
  LET S == BagToSet(B)
      T == {[q EXCEPT !.stale = TRUE] : q \in S}
  IN [t \in T |-> SumOver([q \in S |-> IF [q EXCEPT !.stale = TRUE] = t
                                         THEN B[q] ELSE 0], S)]

Request(op, e, i, arg, txn, pc, res) ==
  [op |-> op, e |-> e, i |-> i, arg |-> arg,
   txn |-> txn, stale |-> FALSE, pc |-> pc, res |-> res]

Begin(r) ==
  /\ BagCardinality(inflight) < MaxInflight
  /\ inflight' = inflight (+) SetToBag({r})
  /\ UNCHANGED <<tasks, taskCounts, now, last>>

\* the routes a request in flight may belong to, with the result each
\* computes from the document it reads now
BeginPut(e, i, status) ==
  /\ Exists(e, i)
  /\ Begin(Request("put", e, i, status, TRUE, "save", PutResult(e, i, status, NoFields)))

BeginUpload(e, i) ==
  /\ Exists(e, i)
  /\ TotalDocs < MaxUploads
  /\ Begin(Request("upload", e, i, "", FALSE, "save", UploadResult(e, i, TRUE)))

BeginVerify(e, i, status) ==
  /\ Exists(e, i)
  /\ Begin(Request("verify", e, i, status, TRUE, "save", VerifyResult(e, i, status)))

BeginSweep ==
  \E r \in {SweepResult} :
    Begin(Request("sweep", "", 0, "", TRUE, "save",
                  [code |-> r.code, tasks |-> r.tasks, taskCounts |-> r.taskCounts]))

\* admin.save() and the response; a sweep that changed no task saves nothing
Finish(r) ==
  /\ BagIn(r, inflight) /\ r.pc = "save"
  /\ IF r.res.code >= 400
       THEN /\ last' = Resp(r.op, r.arg, r.res.code, 0, -1)
            /\ inflight' = inflight (-) SetToBag({r})
            /\ UNCHANGED <<tasks, taskCounts>>
     ELSE IF r.txn /\ r.stale
       THEN /\ last' = Resp(r.op, r.arg, 500, 0, -1)
            /\ inflight' = inflight (-) SetToBag({r})
            /\ UNCHANGED <<tasks, taskCounts>>
     ELSE IF r.op = "sweep" /\ r.res.tasks = tasks
       THEN /\ last' = Resp(r.op, r.arg, r.res.code, 0, -1)
            /\ inflight' = inflight (-) SetToBag({r})
            /\ UNCHANGED <<tasks, taskCounts>>
     ELSE /\ tasks' = r.res.tasks
          /\ taskCounts' = r.res.taskCounts
          /\ last' = Resp(r.op, r.arg, r.res.code, 0, -1)
          /\ inflight' = Outdated(inflight (-) SetToBag({r}))
  /\ UNCHANGED now

\* the create route up to and including its $push
CreatePush(e, endDate) ==
  /\ BagCardinality(inflight) < MaxInflight
  /\ TotalTasks < MaxTasks
  /\ IF ~CreateAccepts(endDate, now)
       THEN /\ last' = Resp("create", "", 400, 0, -1)
            /\ UNCHANGED <<tasks, inflight>>
     ELSE /\ tasks' = [tasks EXCEPT ![e] = Append(@, NewTaskObject(endDate))]
          /\ inflight' = Outdated(inflight)
                            (+) SetToBag({Request("create", e, 0, "", FALSE, "read", NoResult)})
          /\ UNCHANGED last
  /\ UNCHANGED <<taskCounts, now>>

\* Admin.findById(adminId).lean() and the counts computed from it
CreateRead(r) ==
  /\ BagIn(r, inflight) /\ r.pc = "read"
  /\ inflight' = (inflight (-) SetToBag({r})) (+) SetToBag(
       {[r EXCEPT !.pc = "set",
                  !.res = [code |-> 201, tasks |-> << >>,
                           taskCounts |-> UpdateTaskCounts(tasks[r.e])]]})
  /\ UNCHANGED <<tasks, taskCounts, now, last>>

\* the $set of employees.$.taskCounts and the response
CreateSet(r) ==
  /\ BagIn(r, inflight) /\ r.pc = "set"
  /\ taskCounts' = [taskCounts EXCEPT ![r.e] = r.res.taskCounts]
  /\ last' = Resp("create", "", 201, 0, -1)
  /\ inflight' = Outdated(inflight (-) SetToBag({r}))
  /\ UNCHANGED <<tasks, now>>

\* the clock advances while no request is in flight: a request is answered
\* within one step of the clock
QuietTick == inflight = EmptyBag /\ Tick

NextConcurrent ==
  \/ QuietTick
  \/ \E e \in Emps, d \in Deadlines(now) : CreatePush(e, d)
  \/ \E r \in InFlight : CreateRead(r)
  \/ \E r \in InFlight : CreateSet(r)
  \/ \E e \in Emps, i \in TaskIds : BeginPut(e, i, "active")
  \/ \E e \in Emps, i \in TaskIds : BeginUpload(e, i)
  \/ \E e \in Emps, i \in TaskIds, st \in VerifyStatuses : BeginVerify(e, i, st)
  \/ BeginSweep
  \/ \E r \in InFlight : Finish(r)

SpecConcurrent == Init /\ [][NextConcurrent]_vars

\* ------------------------------------------------ client: services/taskWorkflow.js
\* a field the object may lack reads as undefined, which is falsy
Truthy(task, f) == f \in DOMAIN task /\ task[f]

isTaskExpired(task, clock) == clock > task.endDate

hasSubmittedDocuments(task) == Len(task.submittedDocuments) > 0

State(n, a, c, f, p) ==
  [newTask |-> n, active |-> a, completed |-> c, failed |-> f, pendingVerification |-> p]

\* mutant of determineTaskState: an expired task without documents is
\* reported failed with its newTask flag left as it is
determineTaskState_KeepsNewTask(task, clock) ==
  LET isExpired == isTaskExpired(task, clock)
      hasDocuments == hasSubmittedDocuments(task)
  IN IF task.completed THEN State(FALSE, FALSE, TRUE, FALSE, FALSE)
     ELSE IF Truthy(task, "pendingVerification") THEN State(FALSE, FALSE, FALSE, FALSE, TRUE)
     ELSE IF isExpired /\ ~hasDocuments THEN State(task.newTask, FALSE, FALSE, TRUE, FALSE)
     ELSE IF ~task.newTask /\ ~isExpired /\ ~hasDocuments
       THEN State(FALSE, TRUE, FALSE, FALSE, FALSE)
     ELSE IF task.newTask /\ ~isExpired THEN State(TRUE, FALSE, FALSE, FALSE, FALSE)
     ELSE IF task.failed THEN State(FALSE, FALSE, FALSE, TRUE, FALSE)
     ELSE IF task.active THEN State(FALSE, TRUE, FALSE, FALSE, FALSE)
     ELSE State(TRUE, FALSE, FALSE, FALSE, FALSE)

determineTaskState(task, clock) ==
  LET isExpired == isTaskExpired(task, clock)
      hasDocuments == hasSubmittedDocuments(task)
  IN IF task.completed THEN State(FALSE, FALSE, TRUE, FALSE, FALSE)
     ELSE IF Truthy(task, "pendingVerification") THEN State(FALSE, FALSE, FALSE, FALSE, TRUE)
     ELSE IF isExpired /\ ~hasDocuments THEN State(FALSE, FALSE, FALSE, TRUE, FALSE)
     ELSE IF ~task.newTask /\ ~isExpired /\ ~hasDocuments
       THEN State(FALSE, TRUE, FALSE, FALSE, FALSE)
     ELSE IF task.newTask /\ ~isExpired THEN State(TRUE, FALSE, FALSE, FALSE, FALSE)
     ELSE IF task.failed THEN State(FALSE, FALSE, FALSE, TRUE, FALSE)
     ELSE IF task.active THEN State(FALSE, TRUE, FALSE, FALSE, FALSE)
     ELSE State(TRUE, FALSE, FALSE, FALSE, FALSE)

\* ------------------------------------------------ client: utils/taskUtils.js
getTaskStatus(task, clock) ==
  LET isExpired == clock > task.endDate
  IN IF task.completed /\ task.verificationStatus = "verified" THEN "completed"
     ELSE IF task.failed \/ (isExpired /\ task.verificationStatus # "verified") THEN "failed"
     ELSE IF task.verificationStatus = "pending" THEN "pendingVerification"
     ELSE IF task.verificationStatus = "rejected" THEN "rejected"
     ELSE IF task.active THEN "active"
     ELSE "new"

\* valid task status transitions
TransitionStatuses ==
  {"new", "active", "pendingVerification", "rejected", "completed", "failed"}

\* mutant of ALLOWED_TRANSITIONS: a completed task may be reactivated
ALLOWED_TRANSITIONS_ReopensCompleted ==
  [c \in TransitionStatuses |->
     CASE c = "new" -> {"active", "failed"}
       [] c = "active" -> {"pendingVerification", "failed"}
       [] c = "pendingVerification" -> {"completed", "rejected", "failed"}
       [] c = "rejected" -> {"pendingVerification", "failed"}
       [] c = "completed" -> {"active"}
       [] c = "failed" -> {}]

ALLOWED_TRANSITIONS ==
  [c \in TransitionStatuses |->
     CASE c = "new" -> {"active", "failed"}
       [] c = "active" -> {"pendingVerification", "failed"}
       [] c = "pendingVerification" -> {"completed", "rejected", "failed"}
       [] c = "rejected" -> {"pendingVerification", "failed"}
       [] c = "completed" -> {}
       [] c = "failed" -> {}]

\* the empty string stands for a missing (falsy) currentStatus
isValidTransition(currentStatus, newStatus) ==
  IF currentStatus = "" THEN FALSE
  ELSE IF currentStatus = newStatus THEN TRUE
  ELSE LET allowedNextStates == IF currentStatus \in DOMAIN ALLOWED_TRANSITIONS
                                  THEN ALLOWED_TRANSITIONS[currentStatus]
                                  ELSE {}
       IN newStatus \in allowedNextStates

\* the template string `Invalid status transition from ${a} to ${b}`
InvalidTransitionReason(a, b) == <<"Invalid status transition from ", a, " to ", b>>

\* reason <<>> stands for null
validateStatusUpdate(task, newStatus, clock) ==
  LET currentStatus == getTaskStatus(task, clock)
  IN IF ~isValidTransition(currentStatus, newStatus)
       THEN [isValid |-> FALSE, reason |-> InvalidTransitionReason(currentStatus, newStatus)]
     ELSE IF newStatus = "pendingVerification" /\ ~Truthy(task, "documentUrl")
       THEN [isValid |-> FALSE,
             reason |-> <<"Cannot submit for verification without a document">>]
     ELSE [isValid |-> TRUE, reason |-> <<>>]

\* ------------------------------------------------ the client helpers applied
\* The task documents the schema admits, as a client holds them after a
\* fetch, and the statuses a caller may pass.
ClientTasks ==
  [newTask : BOOLEAN, active : BOOLEAN, completed : BOOLEAN, failed : BOOLEAN,
   verificationStatus : VerificationEnum, status : StatusEnum,
   endDate : {2 * GRACE_MS}, submittedDocuments : {<<>>}]

ClientClocks == {GRACE_MS, MaxTime * GRACE_MS}

CallStatuses == TransitionStatuses \cup {"", "expired"}

\* the task a client holds, an employee's only task, and its counts
Holds(t) ==
  /\ tasks = [e \in Emps |-> <<t>>]
  /\ taskCounts = [e \in Emps |-> UpdateTaskCounts(<<t>>)]

\* isValidTransition and validateStatusUpdate do not read task.status: the
\* tasks they are applied to carry the label updateTaskState gives
InitClient ==
  /\ \E t \in ClientTasks : t.status = StatusLabel(t) /\ Holds(t)
  /\ now \in ClientClocks
  /\ last = Resp("none", "", 0, 0, -1)
  /\ inflight = EmptyBag

\* a call of isValidTransition and its return value
IsValidTransitionCall(c, n) ==
  /\ last' = [op |-> "isValidTransition", arg |-> <<c, n>>,
              result |-> isValidTransition(c, n)]
  /\ UNCHANGED <<tasks, taskCounts, now, inflight>>

\* a call of validateStatusUpdate on a held task and its return value
ValidateStatusUpdateCall(e, i, n) ==
  /\ Exists(e, i)
  /\ last' = [op |-> "validateStatusUpdate",
              arg |-> <<getTaskStatus(tasks[e][i], now), n>>,
              result |-> validateStatusUpdate(tasks[e][i], n, now)]
  /\ UNCHANGED <<tasks, taskCounts, now, inflight>>

\* the table of handleStatusUpdate
validTransitions ==
  [c \in {"new", "active", "pendingVerification", "rejected"} |->
     CASE c = "new" -> {"active"}
       [] c = "active" -> {"pendingVerification", "failed"}
       [] c = "pendingVerification" -> {"completed", "rejected"}
       [] c = "rejected" -> {"active", "failed"}]

\* handleStatusUpdate returns { error } without calling updateTaskAPI
HandleRefuses(task, newStatus) ==
  \/ task.completed \/ task.failed
  \/ task.status \in DOMAIN validTransitions /\ newStatus \notin validTransitions[task.status]
  \/ newStatus = "pendingVerification" /\ ~Truthy(task, "documentUrl")
  \/ newStatus = "completed" /\ task.verificationStatus # "pending"
  \/ newStatus \notin {"active", "pendingVerification", "completed", "rejected", "failed"}

\* the fields of updateData that the task schema has, status apart
UpdateData(newStatus) ==
  CASE newStatus = "active" -> [newTask |-> FALSE, active |-> TRUE]
    [] newStatus = "pendingVerification" -> [verificationStatus |-> "pending"]
    [] newStatus = "completed" ->
         [verificationStatus |-> "approved", active |-> FALSE, completed |-> TRUE]
    [] newStatus = "rejected" -> [verificationStatus |-> "rejected", active |-> FALSE]
    [] newStatus = "failed" ->
         [verificationStatus |-> "expired", active |-> FALSE, failed |-> TRUE]

\* handleStatusUpdate with updateTaskAPI bound to employeeAPI.updateTask, the
\* PUT of the task; code 0: no request was sent
HandleStatusUpdate(e, i, newStatus) ==
  /\ Exists(e, i)
  /\ IF HandleRefuses(tasks[e][i], newStatus)
       THEN /\ last' = [op |-> "handleStatusUpdate", arg |-> newStatus,
                        code |-> 0, error |-> TRUE]
            /\ UNCHANGED <<tasks, taskCounts>>
     ELSE \E r \in {PutResult(e, i, newStatus, UpdateData(newStatus))} :
            /\ tasks' = r.tasks
            /\ taskCounts' = r.taskCounts
            /\ last' = [op |-> "handleStatusUpdate", arg |-> newStatus,
                        code |-> r.code, error |-> r.code # 200]
  /\ UNCHANGED <<now, inflight>>

NextClient ==
  \/ \E c \in CallStatuses, n \in CallStatuses : IsValidTransitionCall(c, n)
  \/ \E e \in Emps, i \in TaskIds, n \in CallStatuses : ValidateStatusUpdateCall(e, i, n)

SpecClient == InitClient /\ [][NextClient]_vars

\* handleStatusUpdate, and the PUT route it calls, on any schema-admitted
\* task
InitStatusUpdate ==
  /\ \E t \in ClientTasks : Holds(t)
  /\ now \in ClientClocks
  /\ last = Resp("none", "", 0, 0, -1)
  /\ inflight = EmptyBag

NextStatusUpdate ==
  \/ \E e \in Emps, i \in TaskIds, n \in CallStatuses : HandleStatusUpdate(e, i, n)
  \/ \E e \in Emps, i \in TaskIds, st \in PutStatuses : PutTask(e, i, st, NoFields)

SpecStatusUpdate == InitStatusUpdate /\ [][NextStatusUpdate]_vars

\* ------------------------------------------------ taskWorkflow.js applied
\* { ...task, ...newState }
Spread(task, newState) ==
  [k \in DOMAIN task \cup DOMAIN newState |->
     IF k \in DOMAIN newState THEN newState[k] ELSE task[k]]

processAllTasks(ts, clock) ==
  [i \in DOMAIN ts |-> Spread(ts[i], determineTaskState(ts[i], clock))]

\* the order in which the two object literals list their keys
KeyOrder == <<"newTask", "active", "completed", "failed", "pendingVerification">>

\* JSON.stringify of an object of booleans: its keys in insertion order, each
\* with its value; a key the object lacks does not appear
JSONstringify(obj) ==
  LET F[i \in 0..Len(KeyOrder)] ==
        IF i = 0 THEN <<>>
        ELSE IF KeyOrder[i] \in DOMAIN obj
          THEN Append(F[i - 1], <<KeyOrder[i], obj[KeyOrder[i]]>>)
          ELSE F[i - 1]
  IN F[Len(KeyOrder)]

needsStateUpdate(ts, clock) ==
  \E i \in DOMAIN ts :
    LET currentState == [newTask |-> ts[i].newTask, active |-> ts[i].active,
                         completed |-> ts[i].completed, failed |-> ts[i].failed]
        expectedState == determineTaskState(ts[i], clock)
    IN JSONstringify(currentState) # JSONstringify(expectedState)

\* the task documents a client fetches: any combination of flags, with and
\* without a pending review and documents
FetchedTasks ==
  [newTask : BOOLEAN, active : BOOLEAN, completed : BOOLEAN, failed : BOOLEAN,
   verificationStatus : {"", "pending"}, status : StatusEnum,
   endDate : {2 * GRACE_MS}, submittedDocuments : {<<>>, <<1>>}]

\* the tasks the workflow service is applied to: fetched documents, as they
\* are or with the property pendingVerification the service reads set on them
WorkflowTasks ==
  FetchedTasks \cup {Spread(t, [pendingVerification |-> TRUE]) : t \in FetchedTasks}

InitWorkflow ==
  /\ \E t \in WorkflowTasks : t.status = StatusLabel(t) /\ Holds(t)
  /\ now \in ClientClocks
  /\ last = Resp("none", "", 0, 0, -1)
  /\ inflight = EmptyBag

\* a call of determineTaskState on a held task: its return value, and the
\* return value of a second call on the task with that state spread over it
DetermineTaskStateCall(e, i) ==
  /\ Exists(e, i)
  /\ \E r \in {determineTaskState(tasks[e][i], now)} :
       last' = [op |-> "determineTaskState", arg |-> i, result |-> r,
                again |-> determineTaskState(Spread(tasks[e][i], r), now)]
  /\ UNCHANGED <<tasks, taskCounts, now, inflight>>

\* the held list replaced by processAllTasks of it
ProcessAllTasksCall(e) ==
  /\ tasks' = [tasks EXCEPT ![e] = processAllTasks(@, now)]
  /\ last' = [op |-> "processAllTasks", arg |-> 0, result |-> TRUE, again |-> TRUE]
  /\ UNCHANGED <<taskCounts, now, inflight>>

NeedsStateUpdateCall(e) ==
  /\ last' = [op |-> "needsStateUpdate", arg |-> 0,
              result |-> needsStateUpdate(tasks[e], now), again |-> TRUE]
  /\ UNCHANGED <<tasks, taskCounts, now, inflight>>

NextWorkflow ==
  \/ \E e \in Emps, i \in TaskIds : DetermineTaskStateCall(e, i)
  \/ \E e \in Emps : ProcessAllTasksCall(e)
  \/ \E e \in Emps : NeedsStateUpdateCall(e)

SpecWorkflow == InitWorkflow /\ [][NextWorkflow]_vars

\* ------------------------------------------------ client: services/api.js
MAX_RETRIES == 3

\* the routes apiRequest is called for
Endpoints == {"updateTask", "verifyTask", "checkExpiredTasks"}

\* what one fetch ends in: it rejects (a network error), or it resolves with
\* a response of some status whose body parses or does not
Fetches ==
  {[kind |-> "network", status |-> 0]}
    \cup [kind : {"response"}, status : {200, 400, 401, 404, 500}]
    \cup [kind : {"unparsable"}, status : {200, 500}]

\* the error the try block throws for a fetch; status 0: the error has no
\* status; noError: the response is ok and data is returned
noError == [name |-> "", status |-> 0, failedToFetch |-> FALSE]

thrownError(f) ==
  IF f.kind = "network"
    THEN [name |-> "TypeError", status |-> 0, failedToFetch |-> TRUE]
  ELSE IF f.status = 401
    THEN [name |-> "Error", status |-> 401, failedToFetch |-> FALSE]
  ELSE IF f.kind = "unparsable"
    THEN [name |-> "Error", status |-> 0, failedToFetch |-> FALSE]
  ELSE IF ~(f.status \in 200..299)
    THEN [name |-> "Error", status |-> f.status, failedToFetch |-> FALSE]
  ELSE noError

\* mutant of shouldRetry: every response that carries an error status is retried
shouldRetry_AnyStatus(error) ==
  \/ error.name = "TypeError"
  \/ error.status # 0
  \/ error.failedToFetch

shouldRetry(error) ==
  \/ error.name = "TypeError"
  \/ error.status # 0 /\ error.status >= 500
  \/ error.failedToFetch

\* a caller calls apiRequest(endpoint, options): retryCount = 0; sent lists
\* what each fetch of the call ended in
ApiRequestCall(endpoint) ==
  /\ last.op = "apiRequest" => last.pc \in {"returned", "thrown"}
  /\ last' = [op |-> "apiRequest", endpoint |-> endpoint, retryCount |-> 0,
              sent |-> <<>>, pc |-> "fetch"]
  /\ UNCHANGED <<tasks, taskCounts, now, inflight>>

\* await fetch(url, config), the handling of the response and the catch block
ApiFetch(f) ==
  /\ last.op = "apiRequest" /\ last.pc = "fetch"
  /\ \E error \in {thrownError(f)} :
       last' = [last EXCEPT
                  !.sent = Append(@, f),
                  !.pc = IF error = noError THEN "returned"
                         ELSE IF shouldRetry(error) /\ last.retryCount < MAX_RETRIES
                           THEN "delay"
                         ELSE "thrown"]
  /\ UNCHANGED <<tasks, taskCounts, now, inflight>>

\* the delay has elapsed: return apiRequest(endpoint, options, retryCount + 1)
ApiRetry ==
  /\ last.op = "apiRequest" /\ last.pc = "delay"
  /\ last' = [last EXCEPT !.retryCount = @ + 1, !.pc = "fetch"]
  /\ UNCHANGED <<tasks, taskCounts, now, inflight>>

NextApi ==
  \/ \E endpoint \in Endpoints : ApiRequestCall(endpoint)
  \/ \E f \in Fetches : ApiFetch(f)
  \/ ApiRetry

\* every fetch settles and every timer fires
SpecApi ==
  /\ Init /\ [][NextApi]_vars
  /\ WF_vars(\E f \in Fetches : ApiFetch(f))
  /\ WF_vars(ApiRetry)

\* ===================================================================== claims
FlagCount(t) == Cardinality({f \in Flags : t[f]})

FlagsOf(t) == [f \in Flags |-> t[f]]

Stored == {<<e, i>> \in Emps \X TaskIds : Exists(e, i)}

Terminal(t) == t.completed \/ t.failed

\* a task that was created and neither accepted, submitted nor finished
IsNew(t) ==
  /\ t.newTask /\ ~t.active /\ ~t.completed /\ ~t.failed
  /\ t.verificationStatus = ""

CountSum(c) == c.newTask + c.active + c.completed + c.failed

\* C1: every stored task has exactly one of newTask, active, completed,
\* failed set, in every state the listed server operations reach.
C1_Exclusivity ==
  \A p \in Stored : FlagCount(tasks[p[1]][p[2]]) = 1

\* C2: the counts recomputed from an employee's task list add up to the
\* number of tasks of that employee.
C2_CounterSum ==
  \A e \in Emps : CountSum(UpdateTaskCounts(tasks[e])) = Len(tasks[e])

\* C3: the stored taskCounts of every employee equal the counts that
\* updateTaskCounts recomputes from the employee's current task flags.
C3_NoDrift ==
  \A e \in Emps : taskCounts[e] = UpdateTaskCounts(tasks[e])

\* C4: an accept, a document upload or a review on a task that is completed
\* or failed is answered with an error and leaves the four flags unchanged.
C4_TerminalImmutable ==
  [][\A p \in Stored :
       (/\ Terminal(tasks[p[1]][p[2]])
        /\ \/ PutTask(p[1], p[2], "active", NoFields)
           \/ Upload(p[1], p[2], TRUE)
           \/ \E s \in VerifyStatuses : Verify(p[1], p[2], s))
       => (/\ last'.code >= 400
           /\ FlagsOf(tasks'[p[1]][p[2]]) = FlagsOf(tasks[p[1]][p[2]]))]_vars

\* C5: a sweep that directly follows a sweep, with no tick and no other
\* request in between, changes no task and no count and reports
\* updatedCount = 0.
C5_IdempotentSweep ==
  [][(last.op = "sweep" /\ CheckExpired)
       => (/\ last'.updatedCount = 0
           /\ tasks' = tasks
           /\ taskCounts' = taskCounts)]_vars

\* C5 witness: a second sweep ran directly after a sweep that failed a task.
C5_Witness ==
  /\ last.op = "sweep"
  /\ last.prevUpdated > 0
  /\ last.updatedCount = 0

\* C6: a successful verify-reject leaves the task active with
\* verificationStatus 'rejected', and an upload on a rejected task puts it
\* back to pending verification and appends the new document to the
\* documents already stored.
C6_RejectionRoundTrip ==
  [][\A p \in Stored :
       LET t == tasks[p[1]][p[2]]
           u == tasks'[p[1]][p[2]]
       IN /\ (Verify(p[1], p[2], "rejected") /\ last'.code = 200)
               => (/\ FlagsOf(u) = [f \in Flags |-> f = "active"]
                   /\ u.verificationStatus = "rejected")
          /\ (t.verificationStatus = "rejected" /\ t.active /\ Upload(p[1], p[2], TRUE))
               => (/\ u.verificationStatus = "pending"
                   /\ u.status = "pendingVerification"
                   /\ u.submittedDocuments = Append(t.submittedDocuments, NewDocument(t)))]_vars

\* C7: on a task whose verificationStatus is 'pending', neither
\* updateTaskState (a PUT whose body changes nothing itself) nor the sweep
\* sets failed or verificationStatus 'expired'.
C7_PendingNotExpired ==
  [][\A p \in Stored :
       (/\ tasks[p[1]][p[2]].verificationStatus = "pending"
        /\ \/ PutTask(p[1], p[2], NoStatus, NoFields)
           \/ CheckExpired)
       => (/\ ~tasks'[p[1]][p[2]].failed
           /\ tasks'[p[1]][p[2]].verificationStatus # "expired")]_vars

\* C8: a task whose completed flag is true is kept completed by
\* updateTaskState and reported completed by determineTaskState and by
\* getTaskStatus.
C8_CompletedWins ==
  \A p \in Stored :
    LET t == tasks[p[1]][p[2]]
    IN t.completed
         => (/\ updateTaskState(t, now).completed
             /\ determineTaskState(t, now).completed
             /\ getTaskStatus(t, now) = "completed")

\* C9: a PUT with status 'active' on a task that is not new is answered
\* with an error and leaves the flags and verificationStatus unchanged.
C9_AcceptOnlyFromNew ==
  [][\A p \in Stored :
       (~IsNew(tasks[p[1]][p[2]]) /\ PutTask(p[1], p[2], "active", NoFields))
       => (/\ last'.code >= 400
           /\ FlagsOf(tasks'[p[1]][p[2]]) = FlagsOf(tasks[p[1]][p[2]])
           /\ tasks'[p[1]][p[2]].verificationStatus
                = tasks[p[1]][p[2]].verificationStatus)]_vars

\* C10: a PUT with status 'active' on a new task whose endDate has passed
\* is answered with an error, not with a success.
C10_AcceptExpiredFails ==
  [][\A p \in Stored :
       (/\ IsNew(tasks[p[1]][p[2]])
        /\ tasks[p[1]][p[2]].endDate < now
        /\ PutTask(p[1], p[2], "active", NoFields))
       => last'.code >= 400]_vars

\* C11: a document upload that carries no file is answered 400 and leaves
\* every stored task (flags, verificationStatus, status label, submitted
\* documents) and the counts exactly as they were.
C11_NoEvidenceNoEffect ==
  [][\A p \in Stored :
       (last'.op = "upload" /\ Upload(p[1], p[2], FALSE))
       => (/\ last'.code = 400
           /\ tasks' = tasks
           /\ taskCounts' = taskCounts)]_vars

\* C11 witness: an upload without a file was just rejected on a task that is
\* active, and the task is still active.
C11_Witness ==
  /\ last.op = "upload" /\ last.code = 400
  /\ \E p \in Stored :
       LET t == tasks[p[1]][p[2]]
       IN /\ FlagsOf(t) = [f \in Flags |-> f = "active"]
          /\ t.status = "active"
          /\ t.submittedDocuments = <<>>

\* C12: a verify request, approve or reject, on a task whose
\* verificationStatus is not 'pending' is answered 400 and leaves the stored
\* tasks and the employee's taskCounts unchanged.
C12_ReviewNeedsPending ==
  [][last'.op = "verify"
       => \A p \in Stored : \A s \in VerifyStatuses :
            (/\ tasks[p[1]][p[2]].verificationStatus # "pending"
             /\ Verify(p[1], p[2], s))
            => (/\ last'.code = 400
                /\ tasks' = tasks
                /\ taskCounts' = taskCounts)]_vars

\* C12 witness: a verify request was just rejected on a task that was
\* already reviewed (approved or rejected).
C12_Witness ==
  /\ last.op = "verify" /\ last.code = 400
  /\ \E p \in Stored : tasks[p[1]][p[2]].verificationStatus \in {"approved", "rejected"}

\* a task that was accepted and has not been submitted or finished
IsActive(t) ==
  /\ FlagsOf(t) = [f \in Flags |-> f = "active"]
  /\ t.status = "active"

\* C13: a document upload on an active task makes its status
\* 'pendingVerification'; a verify-approve on the task so submitted makes
\* its status 'completed' with completed the only flag set, and the
\* employee's counts.completed is one higher and counts.active one lower
\* than before the approval.
C13_ApproveScenario ==
  [][\A p \in Stored :
       LET t == tasks[p[1]][p[2]]
           u == tasks'[p[1]][p[2]]
           c == taskCounts[p[1]]
           d == taskCounts'[p[1]]
       IN /\ (IsActive(t) /\ Upload(p[1], p[2], TRUE))
               => u.status = "pendingVerification"
          /\ (/\ t.active /\ t.status = "pendingVerification"
              /\ t.verificationStatus = "pending"
              /\ Verify(p[1], p[2], "completed"))
               => (/\ u.status = "completed"
                   /\ FlagsOf(u) = [f \in Flags |-> f = "completed"]
                   /\ d.completed = c.completed + 1
                   /\ d.active = c.active - 1)]_vars

\* C14: a sweep fails every accepted (active) task whose deadline has passed
\* and its status becomes 'failed'; the updatedCount the sweep returns is
\* the number of tasks that sweep changed to failed.
C14_SweepScenario ==
  [][CheckExpired
       => (/\ \A p \in Stored :
                LET t == tasks[p[1]][p[2]]
                    u == tasks'[p[1]][p[2]]
                IN (IsActive(t) /\ t.endDate < now)
                     => (u.failed /\ ~u.active /\ u.status = "failed")
           /\ last'.updatedCount
                = Cardinality({p \in Stored : /\ ~tasks[p[1]][p[2]].failed
                                              /\ tasks'[p[1]][p[2]].failed}))]_vars

\* the legal-transition table as the specification states it
LegalPairs ==
  {<<"new", "active">>, <<"new", "failed">>,
   <<"active", "pendingVerification">>, <<"active", "failed">>,
   <<"pendingVerification", "completed">>, <<"pendingVerification", "rejected">>,
   <<"pendingVerification", "failed">>,
   <<"rejected", "pendingVerification">>, <<"rejected", "failed">>}

Legal(c, n) == c = n \/ <<c, n>> \in LegalPairs

\* C15: for current and requested statuses among new, active,
\* pendingVerification, rejected, completed and failed, isValidTransition
\* returns true exactly when the two are equal or the pair is in the table,
\* and validateStatusUpdate rejects every other pair with a reason that
\* names the current and the requested status.
C15_TransitionTable ==
  /\ last.op = "isValidTransition"
       => ((last.arg[1] \in TransitionStatuses /\ last.arg[2] \in TransitionStatuses)
             => (last.result <=> Legal(last.arg[1], last.arg[2])))
  /\ last.op = "validateStatusUpdate"
       => ((/\ last.arg[1] \in TransitionStatuses
            /\ last.arg[2] \in TransitionStatuses
            /\ ~Legal(last.arg[1], last.arg[2]))
             => (/\ ~last.result.isValid
                 /\ last.result.reason
                      = <<"Invalid status transition from ", last.arg[1],
                          " to ", last.arg[2]>>))

\* C15 witness: validateStatusUpdate has just refused to reactivate a task
\* whose status is completed.
C15_Witness ==
  /\ last.op = "validateStatusUpdate"
  /\ last.arg = <<"completed", "active">>
  /\ ~last.result.isValid

\* C16: a create-task request is accepted only if its endDate is strictly
\* later than the server's current time plus 30 seconds; a rejected request
\* adds no task and changes no counts; an accepted request adds exactly one
\* task, with newTask true, active, completed and failed false and an empty
\* verificationStatus.
C16_TaskCreation ==
  [][\A e \in Emps : \A d \in Deadlines(now) :
       (last'.op = "create" /\ CreateTask(e, d))
       => IF last'.code = 201
            THEN /\ d > now + 30 * 1000
                 /\ Len(tasks'[e]) = Len(tasks[e]) + 1
                 /\ SubSeq(tasks'[e], 1, Len(tasks[e])) = tasks[e]
                 /\ \A f \in Emps \ {e} : tasks'[f] = tasks[f]
                 /\ LET t == tasks'[e][Len(tasks'[e])]
                    IN /\ FlagsOf(t) = [f \in Flags |-> f = "newTask"]
                       /\ t.verificationStatus = ""
                       /\ t.endDate = d
            ELSE /\ tasks' = tasks
                 /\ taskCounts' = taskCounts]_vars

\* C16 witness: a create request was just accepted and the task it added is
\* stored as a new task.
C16_Witness ==
  /\ last.op = "create" /\ last.code = 201
  /\ \E e \in Emps : /\ Len(tasks[e]) > 0
                      /\ IsNew(tasks[e][Len(tasks[e])])

FailedTasks(e) == {i \in DOMAIN tasks[e] : tasks[e][i].failed}

\* C17: once every request has finished, whatever the interleaving of
\* sweeps with each other and with verify, PUT and upload requests, no
\* employee's taskCounts.failed exceeds the number of failed tasks and every
\* stored task has exactly one flag set.
C17_SweepConcurrencySafe ==
  inflight = EmptyBag
    => (/\ \A e \in Emps : taskCounts[e].failed <= Cardinality(FailedTasks(e))
        /\ \A p \in Stored : FlagCount(tasks[p[1]][p[2]]) = 1)

\* what the request computes from the document as it is stored now
ResultNow(r) ==
  IF r.op # "sweep" /\ ~Exists(r.e, r.i)
    THEN [code |-> 404, tasks |-> tasks, taskCounts |-> taskCounts]
  ELSE IF r.op = "put" THEN PutResult(r.e, r.i, r.arg, NoFields)
  ELSE IF r.op = "upload" THEN UploadResult(r.e, r.i, TRUE)
  ELSE IF r.op = "verify" THEN VerifyResult(r.e, r.i, r.arg)
  ELSE [code |-> SweepResult.code, tasks |-> SweepResult.tasks,
        taskCounts |-> SweepResult.taskCounts]

\* C18: a mutating request that reports success has acted as an atomic
\* read-modify-write: what it stores is its update applied to the document
\* as stored at the time of its write, so that the effect of a request that
\* succeeded between its read and its write is kept.
C18_NoLostUpdate ==
  [][\A r \in InFlight :
       (Finish(r) /\ last'.code \in {200, 201})
       => (/\ tasks' = ResultNow(r).tasks
           /\ taskCounts' = ResultNow(r).taskCounts)]_vars

\* C19: the counts a create-task request stores are the recomputation over
\* the task list that is stored when it stores them, whatever requests ran
\* between its $push and its $set.
C19_CreateCountsCurrent ==
  [][\A r \in InFlight :
       CreateSet(r) => taskCounts'[r.e] = UpdateTaskCounts(tasks'[r.e])]_vars

\* C20: a request to set a task's status to 'completed', by the PUT route or
\* by handleStatusUpdate, on a task whose verificationStatus is not 'pending'
\* is refused, and the stored task, its completed flag included, is as
\* before; so such a request succeeds only on a pending review.
C20_CompletionNeedsReview ==
  [][\A p \in Stored :
       LET t == tasks[p[1]][p[2]]
           u == tasks'[p[1]][p[2]]
       IN /\ (t.verificationStatus # "pending" /\ PutTask(p[1], p[2], "completed", NoFields))
               => (last'.code = 400 /\ u = t /\ (~t.completed => ~u.completed))
          /\ (t.verificationStatus # "pending" /\ HandleStatusUpdate(p[1], p[2], "completed"))
               => (last'.error /\ u = t /\ (~t.completed => ~u.completed))]_vars

\* C20 witness: a PUT with status 'completed' was just refused on a task
\* that is active and was never submitted, and the task is not completed.
C20_Witness ==
  /\ last.op = "put" /\ last.arg = "completed" /\ last.code = 400
  /\ \E p \in Stored :
       LET t == tasks[p[1]][p[2]]
       IN t.active /\ ~t.completed /\ t.verificationStatus = ""

\* C21: on a task whose completed flag is true, a PUT with status 'failed' is
\* answered 400 and changes nothing, and neither that PUT, nor updateTaskState
\* (a PUT whose body names no status), nor the sweep sets the failed flag or
\* clears the completed flag, whether or not the deadline has passed.
C21_CompletedNeverFailed ==
  [][\A p \in Stored :
       LET t == tasks[p[1]][p[2]]
           u == tasks'[p[1]][p[2]]
       IN (t.completed /\ ~t.failed)
            => (/\ ~updateTaskState(t, now).failed
                /\ ~SweepTask(t, now).failed
                /\ (/\ last'.op = "put" /\ last'.arg = "failed"
                    /\ PutTask(p[1], p[2], "failed", NoFields))
                     => (/\ last'.code = 400
                         /\ tasks' = tasks
                         /\ taskCounts' = taskCounts)
                /\ (/\ last'.op = "put" /\ last'.arg = NoStatus
                    /\ PutTask(p[1], p[2], NoStatus, NoFields))
                     => (u.completed /\ ~u.failed)
                /\ (last'.op = "sweep" /\ CheckExpired)
                     => (u.completed /\ ~u.failed))]_vars

\* C21 witness: a PUT with status 'failed' was just refused on a completed
\* task whose deadline has passed.
C21_Witness ==
  /\ last.op = "put" /\ last.arg = "failed" /\ last.code = 400
  /\ \E p \in Stored :
       LET t == tasks[p[1]][p[2]]
       IN t.completed /\ ~t.failed /\ t.endDate < now

\* C22: a successful document upload appends exactly one document to the end
\* of the task's submittedDocuments, and after every request (upload, verify,
\* PUT task update, sweep) the documents stored before are still there, in
\* the same order, at the head of the list.
C22_EvidenceAccumulates ==
  [][\A p \in Stored :
       LET d == tasks[p[1]][p[2]].submittedDocuments
           n == tasks'[p[1]][p[2]].submittedDocuments
       IN /\ Len(n) >= Len(d)
          /\ SubSeq(n, 1, Len(d)) = d
          /\ (last'.op = "upload" /\ last'.code = 201 /\ Upload(p[1], p[2], TRUE))
               => n = Append(d, NewDocument(tasks[p[1]][p[2]]))]_vars

\* C23: after a sweep, every task that was not completed, not failed and not
\* pending review and whose endDate was before the sweep time is failed with
\* verificationStatus 'expired', tasks still new included.
C23_SweepCoverage ==
  [][(last'.op = "sweep" /\ CheckExpired)
       => \A p \in Stored :
            LET t == tasks[p[1]][p[2]]
                u == tasks'[p[1]][p[2]]
            IN (/\ ~t.completed /\ ~t.failed
                /\ t.verificationStatus # "pending"
                /\ t.endDate < now)
                 => (u.failed /\ u.verificationStatus = "expired")]_vars

\* the labels the specification lists for the derived status
DerivedStatuses ==
  {"new", "active", "pendingVerification", "completed", "failed", "rejected"}

\* the label agrees with the flags and the verificationStatus
LabelAgrees(t) ==
  /\ t.status \in DerivedStatuses
  /\ IF t.completed THEN t.status = "completed"
     ELSE IF t.failed THEN t.status = "failed"
     ELSE IF t.verificationStatus = "pending" THEN t.status = "pendingVerification"
     ELSE IF t.active THEN t.status \in {"active", "rejected"}
     ELSE t.newTask => t.status = "new"

\* C24: after every PUT task update, document upload, verify and sweep, the
\* status of every stored task is one of new, active, pendingVerification,
\* completed, failed, rejected and agrees with the task's flags and
\* verificationStatus.
C24_LabelFollowsFlags ==
  last.op \in {"put", "upload", "verify", "sweep"}
    => \A p \in Stored : LabelAgrees(tasks[p[1]][p[2]])

\* a task with no flag set, no pending review and its deadline ahead
Flagless(t, clock) ==
  /\ FlagsOf(t) = [f \in Flags |-> FALSE]
  /\ t.verificationStatus # "pending"
  /\ ~Truthy(t, "pendingVerification")
  /\ ~(t.endDate < clock)

\* C25: for a task with none of the four flags true, no pending review and a
\* deadline not yet passed, determineTaskState returns newTask as the single
\* true flag, and updateTaskState leaves the task with newTask as its single
\* true flag.
C25_FallbackToNew ==
  [][\A p \in Stored :
       LET t == tasks[p[1]][p[2]]
       IN (Flagless(t, now) /\ DetermineTaskStateCall(p[1], p[2]))
            => (/\ last'.result = State(TRUE, FALSE, FALSE, FALSE, FALSE)
                /\ FlagsOf(updateTaskState(t, now)) = [f \in Flags |-> f = "newTask"])]_vars

\* C26: the fields a PUT body carries besides status never change a task's
\* flags or verificationStatus: after the PUT they are what the same request
\* without those fields leaves.
C26_NoBypass ==
  [][\A p \in Stored : \A st \in PutStatuses : \A b \in Bodies :
       (last'.op = "put" /\ last'.arg = st /\ PutTask(p[1], p[2], st, b))
       => LET u == tasks'[p[1]][p[2]]
              w == PutResult(p[1], p[2], st, NoFields).tasks[p[1]][p[2]]
          IN /\ FlagsOf(u) = FlagsOf(w)
             /\ u.verificationStatus = w.verificationStatus]_vars

\* the number of the five state properties that are true
StateCount(r) == Cardinality({k \in DOMAIN r : r[k]})

StateDiffers(t, clock) ==
  \E f \in Flags : t[f] # determineTaskState(t, clock)[f]

\* C28: needsStateUpdate returns true exactly when the flags newTask, active,
\* completed, failed of at least one task of the list differ from those
\* determineTaskState computes for it; it returns false for a list whose
\* tasks are all in their determined state.
C28_NeedsStateUpdate ==
  last.op = "needsStateUpdate"
    => \A e \in Emps :
         last.result <=> \E i \in DOMAIN tasks[e] : StateDiffers(tasks[e][i], now)

\* a fetch that ended in a network error or in a 5xx response
Retryable(f) == f.kind = "network" \/ (f.kind = "response" /\ f.status >= 500)

\* C29: apiRequest sends a request again only after a fetch that ended in a
\* network error or a 5xx response, and at most MAX_RETRIES times; after a
\* 4xx answer nothing more is sent and the error is thrown, so a request
\* whose first answer is a 4xx is sent exactly once; and every call ends by
\* returning data or throwing an error.
C29_BoundedRetries ==
  /\ [](last.op = "apiRequest"
          => (/\ Len(last.sent) <= MAX_RETRIES + 1
              /\ \A k \in 1..(Len(last.sent) - 1) : Retryable(last.sent[k])
              /\ last.pc \in {"delay", "fetch"} /\ last.sent # <<>>
                   => Retryable(last.sent[Len(last.sent)])
              /\ \A k \in 1..Len(last.sent) :
                   (last.sent[k].kind = "response" /\ last.sent[k].status \in 400..499)
                     => (k = Len(last.sent) /\ last.pc = "thrown")
              /\ last.pc = "returned"
                   => thrownError(last.sent[Len(last.sent)]) = noError))
  /\ ((last.op = "apiRequest" /\ last.pc = "fetch")
        ~> (last.op = "apiRequest" /\ last.pc \in {"returned", "thrown"}))

\* C29 witness: a call has thrown after its request was answered 500 four
\* times, the first send and three retries.
C29_Witness ==
  /\ last.op = "apiRequest" /\ last.pc = "thrown"
  /\ last.retryCount = MAX_RETRIES
  /\ Len(last.sent) = MAX_RETRIES + 1
  /\ \A k \in 1..Len(last.sent) : last.sent[k] = [kind |-> "response", status |-> 500]

\* C30: handleStatusUpdate calls updateTaskAPI only for a task that is neither
\* completed nor failed and only when newStatus is listed in validTransitions
\* for the task's current status; for a status that is not a key of the
\* table nothing is listed.
C30_ClientCallsOnlyLegal ==
  [][\A p \in Stored : \A n \in CallStatuses :
       LET t == tasks[p[1]][p[2]]
       IN (/\ last'.op = "handleStatusUpdate" /\ last'.arg = n /\ last'.code # 0
           /\ HandleStatusUpdate(p[1], p[2], n))
            => (/\ ~t.completed /\ ~t.failed
                /\ t.status \in DOMAIN validTransitions
                /\ n \in validTransitions[t.status])]_vars

====
